---- MODULE Spec2Model ----
(***************************************************************************)
(* Model of discussion_agents/cog/modules/reflect/reflexion.py:            *)
(* ReflexionCoTReflector and ReflexionReActReflector.                      *)
(*                                                                         *)
(* A Python str is modelled as a sequence of tokens (each token a TLA+     *)
(* string); "" is <<>> and + is \o.  A List[str] is a sequence of opaque   *)
(* critique tokens.  An Optional[T] argument is a set with at most one     *)
(* element ({} is None).                                                   *)
(***************************************************************************)
EXTENDS Integers, Sequences, FiniteSets, TLC

\* ---------------------------------------------------------------- bounds
MaxCap == 2      \* largest max_reflections a reflector is constructed with
MaxSeed == 2     \* longest window handed to the constructor
MaxLen == 2      \* longest window the model lets reflect build

\* ---------------------------------------------------------------- values
Variants == {"CoT", "ReAct"}
Critiques == {"A", "B"}
Questions == {"Q", "Q2"}
Scratchpads == {"S"}
Contexts == {{}, {"ctx"}}
Recognized == {"last_attempt", "reflexion", "last_attempt_and_reflexion"}
Strategies == Recognized \cup {"bogus", "Reflexion"}
MaxReflectionsValues == (-1)..MaxCap

LAST_TRIAL_HEADER == "<LAST_TRIAL_HEADER>"
REFLECTION_HEADER == "<REFLECTION_HEADER>"
REFLECTION_AFTER_LAST_TRIAL_HEADER == "<REFLECTION_AFTER_LAST_TRIAL_HEADER>"
NL == "\n"
Bullet == "- "

RECURSIVE SeqsUpTo(_, _)
SeqsUpTo(S, n) ==
    IF n = 0 THEN {<<>>}
    ELSE LET shorter == SeqsUpTo(S, n - 1)
         IN shorter \cup {Append(w, x) : w \in shorter, x \in S}

\* outcomes of one call of the language model: a critique, or a failure
LLMOutcomes == {[ok |-> TRUE, text |-> c] : c \in Critiques}
                   \cup {[ok |-> FALSE, text |-> ""]}

\* what a call that did not reach the language model records as its outcome
NoOutcome == [ok |-> FALSE, text |-> "not called"]

\* the language model answers only the strategies that prompt it
OutcomesFor(strategy) ==
    IF strategy \in {"reflexion", "last_attempt_and_reflexion"}
      THEN LLMOutcomes ELSE {NoOutcome}

\* ------------------------------------------------------------ formatters
format_last_attempt(question, scratchpad) ==
    <<LAST_TRIAL_HEADER, question, scratchpad>>

RECURSIVE BulletList(_)
BulletList(reflections) ==
    IF reflections = <<>> THEN <<>>
    ELSE <<Bullet, Head(reflections), NL>> \o BulletList(Tail(reflections))

format_reflections(reflections, header) ==
    IF reflections = <<>> THEN <<>>
    ELSE <<header>> \o BulletList(reflections)

\* ------------------------------------------------- generation routines
Generate(strategy, reflections, out) ==
    IF strategy = "last_attempt"
      THEN [status |-> "ok", value |-> reflections, llm_calls |-> 0]
    ELSE IF strategy \in {"reflexion", "last_attempt_and_reflexion"}
      THEN IF out.ok
             THEN [status |-> "ok", value |-> Append(reflections, out.text),
                   llm_calls |-> 1]
             ELSE [status |-> "GenerationFailure", value |-> <<>>,
                   llm_calls |-> 1]
    ELSE [status |-> "UnsupportedStrategy", value |-> <<>>, llm_calls |-> 0]

cot_reflect(strategy, reflections, question, scratchpad, context, out) ==
    Generate(strategy, reflections, out)

react_reflect(strategy, reflections, question, scratchpad, out) ==
    Generate(strategy, reflections, out)

\* ---------------------------------------------------------------- slicing
\* Python lst[start:]
PySliceFrom(lst, start) ==
    LET n == Len(lst)
        i == IF start < 0
               THEN (IF start + n < 0 THEN 0 ELSE start + n)
               ELSE (IF start > n THEN n ELSE start)
    IN SubSeq(lst, i + 1, n)

\* mutant: the slice keeps one entry fewer
Truncate_off_by_one(generated, max_reflections) ==
    PySliceFrom(generated, 1 - max_reflections)

\* generated[-self.max_reflections :]
Truncate(generated, max_reflections) ==
    PySliceFrom(generated, 0 - max_reflections)

\* ---------------------------------------------------------------- render
\* mutant: the combined strategy renders under the default header
render_default_header(strategy, reflections, question, scratchpad) ==
    IF strategy = "last_attempt"
      THEN [bound |-> TRUE,
            str |-> format_last_attempt(question, scratchpad)]
    ELSE IF strategy = "reflexion"
      THEN [bound |-> TRUE,
            str |-> format_reflections(reflections, REFLECTION_HEADER)]
    ELSE IF strategy = "last_attempt_and_reflexion"
      THEN [bound |-> TRUE,
            str |-> format_last_attempt(question, scratchpad) \o <<NL>>
                      \o format_reflections(reflections, REFLECTION_HEADER)]
    ELSE [bound |-> FALSE, str |-> <<>>]

\* mutant: the chain ends in an else branch that renders the last attempt
render_with_fallback(strategy, reflections, question, scratchpad) ==
    IF strategy = "reflexion"
      THEN [bound |-> TRUE,
            str |-> format_reflections(reflections, REFLECTION_HEADER)]
    ELSE IF strategy = "last_attempt_and_reflexion"
      THEN [bound |-> TRUE,
            str |-> format_last_attempt(question, scratchpad) \o <<NL>>
                      \o format_reflections(reflections,
                                            REFLECTION_AFTER_LAST_TRIAL_HEADER)]
    ELSE [bound |-> TRUE, str |-> format_last_attempt(question, scratchpad)]

\* the if/elif chain; bound is FALSE when no branch assigns reflections_str
render(strategy, reflections, question, scratchpad) ==
    IF strategy = "last_attempt"
      THEN [bound |-> TRUE,
            str |-> format_last_attempt(question, scratchpad)]
    ELSE IF strategy = "reflexion"
      THEN [bound |-> TRUE,
            str |-> format_reflections(reflections, REFLECTION_HEADER)]
    ELSE IF strategy = "last_attempt_and_reflexion"
      THEN [bound |-> TRUE,
            str |-> format_last_attempt(question, scratchpad) \o <<NL>>
                      \o format_reflections(reflections,
                                            REFLECTION_AFTER_LAST_TRIAL_HEADER)]
    ELSE [bound |-> FALSE, str |-> <<>>]

\* ---------------------------------------------------------------- reflect
NoReturn == [reflections |-> <<>>, reflections_str |-> <<>>]

\* mutant: the rendered string is reset before the generation routine runs
reflect_reset_first(self, strategy, question, scratchpad, g) ==
    LET self0 == [self EXCEPT !.reflections_str = <<>>]
    IN IF g.status # "ok"
         THEN [self |-> self0, raised |-> g.status, ret |-> NoReturn]
       ELSE LET refl == Truncate(g.value, self.max_reflections)
                self1 == [self0 EXCEPT !.reflections = refl]
                r == render(strategy, refl, question, scratchpad)
            IN IF r.bound
                 THEN [self |-> [self1 EXCEPT !.reflections_str = r.str],
                       raised |-> "none",
                       ret |-> [reflections |-> refl,
                                reflections_str |-> r.str]]
                 ELSE [self |-> self1, raised |-> "UnboundLocalError",
                       ret |-> NoReturn]

\* mutant: a failed generation falls back to rendering the last attempt
reflect_fallback(self, strategy, question, scratchpad, g) ==
    LET ok == g.status = "ok"
        refl == IF ok THEN Truncate(g.value, self.max_reflections)
                ELSE self.reflections
        r == IF ok THEN render(strategy, refl, question, scratchpad)
             ELSE render("last_attempt", refl, question, scratchpad)
        self1 == [self EXCEPT !.reflections = refl]
    IN IF r.bound
         THEN [self |-> [self1 EXCEPT !.reflections_str = r.str],
               raised |-> "none",
               ret |-> [reflections |-> refl, reflections_str |-> r.str]]
         ELSE [self |-> self1, raised |-> "UnboundLocalError",
               ret |-> NoReturn]

\* mutant: the new rendering is appended to the stored rendered string
reflect_incremental(self, strategy, question, scratchpad, g) ==
    IF g.status # "ok"
      THEN [self |-> self, raised |-> g.status, ret |-> NoReturn]
    ELSE LET refl == Truncate(g.value, self.max_reflections)
             self1 == [self EXCEPT !.reflections = refl]
             r == render(strategy, refl, question, scratchpad)
             str == self.reflections_str \o r.str
         IN IF r.bound
              THEN [self |-> [self1 EXCEPT !.reflections_str = str],
                    raised |-> "none",
                    ret |-> [reflections |-> refl, reflections_str |-> str]]
              ELSE [self |-> self1, raised |-> "UnboundLocalError",
                    ret |-> NoReturn]

\* mutant: the rendering is made from the generated list before the slice
reflect_render_untruncated(self, strategy, question, scratchpad, g) ==
    IF g.status # "ok"
      THEN [self |-> self, raised |-> g.status, ret |-> NoReturn]
    ELSE LET refl == Truncate(g.value, self.max_reflections)
             self1 == [self EXCEPT !.reflections = refl]
             r == render(strategy, g.value, question, scratchpad)
         IN IF r.bound
              THEN [self |-> [self1 EXCEPT !.reflections_str = r.str],
                    raised |-> "none",
                    ret |-> [reflections |-> refl, reflections_str |-> r.str]]
              ELSE [self |-> self1, raised |-> "UnboundLocalError",
                    ret |-> NoReturn]

\* mutant: the truncated list is returned but never stored
reflect_no_store(self, strategy, question, scratchpad, g) ==
    IF g.status # "ok"
      THEN [self |-> self, raised |-> g.status, ret |-> NoReturn]
    ELSE LET refl == Truncate(g.value, self.max_reflections)
             r == render(strategy, refl, question, scratchpad)
         IN IF r.bound
              THEN [self |-> [self EXCEPT !.reflections_str = r.str],
                    raised |-> "none",
                    ret |-> [reflections |-> refl, reflections_str |-> r.str]]
              ELSE [self |-> self, raised |-> "UnboundLocalError",
                    ret |-> NoReturn]

\* mutant: a failed generation empties the window before the error leaves
reflect_clear_on_error(self, strategy, question, scratchpad, g) ==
    IF g.status # "ok"
      THEN [self |-> [self EXCEPT !.reflections = <<>>],
            raised |-> g.status, ret |-> NoReturn]
    ELSE LET refl == Truncate(g.value, self.max_reflections)
             self1 == [self EXCEPT !.reflections = refl]
             r == render(strategy, refl, question, scratchpad)
         IN IF r.bound
              THEN [self |-> [self1 EXCEPT !.reflections_str = r.str],
                    raised |-> "none",
                    ret |-> [reflections |-> refl, reflections_str |-> r.str]]
              ELSE [self |-> self1, raised |-> "UnboundLocalError",
                    ret |-> NoReturn]

\* the body of reflect once the generation routine has produced g
reflect(self, strategy, question, scratchpad, g) ==
    IF g.status # "ok"
      THEN [self |-> self, raised |-> g.status, ret |-> NoReturn]
    ELSE LET refl == Truncate(g.value, self.max_reflections)
             self1 == [self EXCEPT !.reflections = refl]
             r == render(strategy, refl, question, scratchpad)
         IN IF r.bound
              THEN [self |-> [self1 EXCEPT !.reflections_str = r.str],
                    raised |-> "none",
                    ret |-> [reflections |-> refl, reflections_str |-> r.str]]
              ELSE [self |-> self1, raised |-> "UnboundLocalError",
                    ret |-> NoReturn]

\* mutant: clear forgets the rendered string
clear_window_only(self) ==
    [self EXCEPT !.reflections = <<>>]

\* mutant: clear also puts max_reflections back to its default
clear_resets_cap(self) ==
    [self EXCEPT !.reflections = <<>>, !.reflections_str = <<>>,
                 !.max_reflections = 3]

clear(self) ==
    [self EXCEPT !.reflections = <<>>, !.reflections_str = <<>>]

\* ------------------------------------------- ReflexionReActReflector
\* generated[-self.max_reflections :] of ReflexionReActReflector.reflect
ReAct_Truncate(generated, max_reflections) ==
    PySliceFrom(generated, 0 - max_reflections)

\* the if/elif chain of ReflexionReActReflector.reflect
ReAct_render(strategy, reflections, question, scratchpad) ==
    IF strategy = "last_attempt"
      THEN [bound |-> TRUE,
            str |-> format_last_attempt(question, scratchpad)]
    ELSE IF strategy = "reflexion"
      THEN [bound |-> TRUE,
            str |-> format_reflections(reflections, REFLECTION_HEADER)]
    ELSE IF strategy = "last_attempt_and_reflexion"
      THEN [bound |-> TRUE,
            str |-> format_last_attempt(question, scratchpad) \o <<NL>>
                      \o format_reflections(reflections,
                                            REFLECTION_AFTER_LAST_TRIAL_HEADER)]
    ELSE [bound |-> FALSE, str |-> <<>>]

\* the body of ReflexionReActReflector.reflect once react_reflect produced g
ReAct_reflect(self, strategy, question, scratchpad, g) ==
    IF g.status # "ok"
      THEN [self |-> self, raised |-> g.status, ret |-> NoReturn]
    ELSE LET refl == ReAct_Truncate(g.value, self.max_reflections)
             self1 == [self EXCEPT !.reflections = refl]
             r == ReAct_render(strategy, refl, question, scratchpad)
         IN IF r.bound
              THEN [self |-> [self1 EXCEPT !.reflections_str = r.str],
                    raised |-> "none",
                    ret |-> [reflections |-> refl, reflections_str |-> r.str]]
              ELSE [self |-> self1, raised |-> "UnboundLocalError",
                    ret |-> NoReturn]

ReAct_clear(self) ==
    [self EXCEPT !.reflections = <<>>, !.reflections_str = <<>>]

\* ------------------------------------------------------------------ state
\* variant, llm, max_reflections, reflections, reflections_str: the reflector.
\* chron: the latest entries of the chronological sequence (the window the
\*       reflector started with, or nothing since the latest clear, followed
\*       by the critiques generated since).
\* last, prev: the latest call and the one before it.
VARIABLES variant, llm, max_reflections, reflections, reflections_str,
          chron, last, prev

vars == <<variant, llm, max_reflections, reflections, reflections_str,
          chron, last, prev>>

Self == [llm |-> llm, max_reflections |-> max_reflections,
         reflections |-> reflections, reflections_str |-> reflections_str]

\* __init__: a falsy (None or empty) argument becomes the empty value
init(llm_arg, reflections_arg, reflections_str_arg, max_reflections_arg) ==
    [llm |-> llm_arg,
     reflections |-> IF reflections_arg = {} \/ reflections_arg = {<<>>}
                       THEN <<>> ELSE CHOOSE w \in reflections_arg : TRUE,
     reflections_str |-> IF reflections_str_arg = {}
                              \/ reflections_str_arg = {<<>>}
                           THEN <<>> ELSE CHOOSE t \in reflections_str_arg : TRUE,
     max_reflections |-> max_reflections_arg]

\* ReflexionReActReflector.__init__
ReAct_init(llm_arg, reflections_arg, reflections_str_arg, max_reflections_arg) ==
    [llm |-> llm_arg,
     reflections |-> IF reflections_arg = {} \/ reflections_arg = {<<>>}
                       THEN <<>> ELSE CHOOSE w \in reflections_arg : TRUE,
     reflections_str |-> IF reflections_str_arg = {}
                              \/ reflections_str_arg = {<<>>}
                           THEN <<>> ELSE CHOOSE t \in reflections_str_arg : TRUE,
     max_reflections |-> max_reflections_arg]

SeedWindows == {{}} \cup {{w} : w \in SeqsUpTo(Critiques, MaxSeed)}
SeedStrings == {{}, {<<>>}, {<<"seed">>}}

NoCall == [op |-> "init", strategy |-> "", question |-> "", scratchpad |-> "",
           raised |-> "none", ret |-> NoReturn, llm_calls |-> 0,
           out |-> NoOutcome,
           pre_reflections |-> <<>>, pre_reflections_str |-> <<>>,
           pre_max_reflections |-> 0, pre_llm |-> ""]

\* what is kept of the call before the latest one; the state it started from
\* is kept only when it raised
Brief(call) ==
    LET failed == call.op = "reflect" /\ call.raised # "none"
    IN [op |-> call.op, strategy |-> call.strategy,
        question |-> call.question, scratchpad |-> call.scratchpad,
        raised |-> call.raised, ret |-> call.ret,
        pre_reflections |-> IF failed THEN call.pre_reflections ELSE <<>>,
        pre_reflections_str |-> IF failed THEN call.pre_reflections_str
                                ELSE <<>>]

\* the last n entries of w, oldest first (n >= 0)
LastN(w, n) ==
    SubSeq(w, Len(w) - (IF n < Len(w) THEN n ELSE Len(w)) + 1, Len(w))

\* how many entries of the chronological sequence are kept: no window the
\* claims speak of is longer than the largest max_reflections
ChronKeep == MaxCap

Init ==
    /\ variant \in Variants
    /\ llm = "llm"
    /\ \E w \in SeedWindows, t \in SeedStrings, m \in MaxReflectionsValues :
         LET s0 == IF variant = "CoT" THEN init("llm", w, t, m)
                   ELSE ReAct_init("llm", w, t, m)
         IN /\ reflections = s0.reflections
            /\ reflections_str = s0.reflections_str
            /\ max_reflections = s0.max_reflections
            /\ chron = LastN(s0.reflections, ChronKeep)
    /\ last = NoCall
    /\ prev = Brief(NoCall)

\* the chronological sequence after a call
NextChron(call) ==
    IF call.op = "clear" THEN <<>>
    ELSE IF call.raised = "none" /\ call.llm_calls = 1 /\ call.out.ok
      THEN LastN(Append(chron, call.out.text), ChronKeep)
    ELSE chron

Install(res, call) ==
    /\ llm' = res.self.llm
    /\ max_reflections' = res.self.max_reflections
    /\ reflections' = res.self.reflections
    /\ reflections_str' = res.self.reflections_str
    /\ \E c \in {call} : last' = c /\ chron' = NextChron(c)
    /\ prev' = Brief(last)
    /\ UNCHANGED variant

\* mutant: the generation routine is run a second time
ReflectCall_twice(strategy, question, scratchpad, out, g, res) ==
    /\ Len(res.self.reflections) <= MaxLen
    /\ Install(res,
               [op |-> "reflect", strategy |-> strategy,
                question |-> question, scratchpad |-> scratchpad,
                raised |-> res.raised, ret |-> res.ret,
                llm_calls |-> g.llm_calls + g.llm_calls,
                out |-> IF g.llm_calls = 1 THEN out ELSE NoOutcome,
                pre_reflections |-> reflections,
                pre_reflections_str |-> reflections_str,
                pre_max_reflections |-> max_reflections,
                pre_llm |-> llm])

\* one reflect call: the generation routine ran once and produced g, and the
\* reflector ended as res
ReflectCall(strategy, question, scratchpad, out, g, res) ==
    /\ Len(res.self.reflections) <= MaxLen
    /\ Install(res,
               [op |-> "reflect", strategy |-> strategy,
                question |-> question, scratchpad |-> scratchpad,
                raised |-> res.raised, ret |-> res.ret,
                llm_calls |-> g.llm_calls,
                out |-> IF g.llm_calls = 1 THEN out ELSE NoOutcome,
                pre_reflections |-> reflections,
                pre_reflections_str |-> reflections_str,
                pre_max_reflections |-> max_reflections,
                pre_llm |-> llm])

CoTReflectWith(strategy) ==
    /\ variant = "CoT"
    /\ \E question \in Questions,
          scratchpad \in Scratchpads, context \in Contexts :
       \E out \in OutcomesFor(strategy) :
       \E g \in {cot_reflect(strategy, reflections, question, scratchpad,
                              context, out)} :
       \E res \in {reflect(Self, strategy, question, scratchpad, g)} :
         ReflectCall(strategy, question, scratchpad, out, g, res)

ReActReflectWith(strategy) ==
    /\ variant = "ReAct"
    /\ \E question \in Questions, scratchpad \in Scratchpads :
       \E out \in OutcomesFor(strategy) :
       \E g \in {react_reflect(strategy, reflections, question, scratchpad,
                                out)} :
       \E res \in {ReAct_reflect(Self, strategy, question, scratchpad, g)} :
         ReflectCall(strategy, question, scratchpad, out, g, res)

CoTReflect == \E strategy \in Strategies : CoTReflectWith(strategy)

ReActReflect == \E strategy \in Strategies : ReActReflectWith(strategy)

Clear ==
    \E res \in {[self |-> IF variant = "CoT" THEN clear(Self)
                          ELSE ReAct_clear(Self)]} :
    Install(res,
            [op |-> "clear", strategy |-> "", question |-> "",
             scratchpad |-> "", raised |-> "none", ret |-> NoReturn,
             llm_calls |-> 0, out |-> NoOutcome,
             pre_reflections |-> reflections,
             pre_reflections_str |-> reflections_str,
             pre_max_reflections |-> max_reflections,
             pre_llm |-> llm])

Next == CoTReflect \/ ReActReflect \/ Clear

Spec == Init /\ [][Next]_vars

\* ------------------------------------------- the if/elif chain on its own
\* A generation routine that does not reject the strategy: what Generate
\* gives, and for an unrecognized strategy also a normal return with the new
\* critique appended.
GenerateAny(strategy, window, out) ==
    {Generate(strategy, window, out)}
      \cup (IF strategy \notin Recognized /\ out.ok
              THEN {[status |-> "ok", value |-> Append(window, out.text),
                     llm_calls |-> 1]}
              ELSE {})

OutcomesAny(strategy) ==
    IF strategy = "last_attempt" THEN {NoOutcome} ELSE LLMOutcomes

\* the inputs the chain is driven with: every recognized strategy, one
\* unrecognized one, one question
ChainStrategies == Recognized \cup {"bogus"}
ChainQuestions == {"Q"}

CoTReflectAny ==
    /\ variant = "CoT"
    /\ \E strategy \in ChainStrategies, question \in ChainQuestions,
          scratchpad \in Scratchpads :
       \E out \in OutcomesAny(strategy) :
       \E g \in GenerateAny(strategy, reflections, out) :
       \E res \in {reflect(Self, strategy, question, scratchpad, g)} :
         ReflectCall(strategy, question, scratchpad, out, g, res)

ReActReflectAny ==
    /\ variant = "ReAct"
    /\ \E strategy \in ChainStrategies, question \in ChainQuestions,
          scratchpad \in Scratchpads :
       \E out \in OutcomesAny(strategy) :
       \E g \in GenerateAny(strategy, reflections, out) :
       \E res \in {ReAct_reflect(Self, strategy, question, scratchpad, g)} :
         ReflectCall(strategy, question, scratchpad, out, g, res)

NextChain == CoTReflectAny \/ ReActReflectAny \/ Clear

SpecChain == Init /\ [][NextChain]_vars

\* ----------------------------------------------------- claim vocabulary
Returned == last.op = "reflect" /\ last.raised = "none"

Min(a, b) == IF a < b THEN a ELSE b

Unchanged ==
    /\ reflections = last.pre_reflections
    /\ reflections_str = last.pre_reflections_str

\* C1: for a reflector configured with max_reflections >= 0 (0 included),
\* whatever window it was constructed with, the stored window has at most
\* max_reflections entries once a reflect call has returned.
C1_WindowBound ==
    (max_reflections >= 0 /\ Returned) => Len(reflections) <= max_reflections

\* C2: after a returned reflect call with strategy "reflexion" that generated
\* critique c, the window has min(max_reflections, previous length + 1)
\* entries and is the last max_reflections entries of the previous window
\* followed by c, oldest first.
C2_ReflexionWindow ==
    (max_reflections >= 0 /\ Returned /\ last.strategy = "reflexion") =>
        /\ Len(reflections)
             = Min(max_reflections, Len(last.pre_reflections) + 1)
        /\ reflections
             = LastN(Append(last.pre_reflections, last.out.text),
                     max_reflections)

\* C3: a reflect call whose strategy is not one of the three recognized
\* literals (compared exactly) ends in an error, and the stored window and
\* rendered string are what they were before the call.
C3_UnsupportedStrategy ==
    (last.op = "reflect" /\ last.strategy \notin Recognized) =>
        /\ last.raised # "none"
        /\ Unchanged

C3_Witness ==
    /\ last.op = "reflect"
    /\ last.strategy = "Reflexion"
    /\ last.raised = "UnsupportedStrategy"
    /\ Len(last.pre_reflections) > max_reflections
    /\ last.pre_reflections_str # <<>>

\* C4: when the language model fails during a reflect call with strategy
\* "reflexion" or "last_attempt_and_reflexion", the call ends in that error
\* and the stored window and rendered string both keep their pre-call values.
C4_GenerationFailure ==
    (/\ last.op = "reflect"
     /\ last.strategy \in {"reflexion", "last_attempt_and_reflexion"}
     /\ last.llm_calls = 1
     /\ ~last.out.ok) =>
        /\ last.raised = "GenerationFailure"
        /\ Unchanged

C4_Witness ==
    /\ last.op = "reflect"
    /\ last.strategy = "last_attempt_and_reflexion"
    /\ last.llm_calls = 1
    /\ ~last.out.ok
    /\ last.raised = "GenerationFailure"
    /\ last.pre_reflections # <<>>
    /\ last.pre_reflections_str # <<>>

\* C5: a returned reflect call with strategy "last_attempt" leaves the window
\* as it was when the window had at most max_reflections entries before the
\* call, and never lengthens the window.
C5_LastAttemptWindow ==
    (Returned /\ last.strategy = "last_attempt") =>
        /\ Len(last.pre_reflections) <= max_reflections
              => reflections = last.pre_reflections
        /\ Len(reflections) <= Len(last.pre_reflections)

C5_Witness ==
    /\ Returned
    /\ last.strategy = "last_attempt"
    /\ last.pre_reflections # <<>>
    /\ Len(last.pre_reflections) = max_reflections
    /\ reflections = last.pre_reflections

\* C6: a returned reflect call with strategy "last_attempt" returns and stores
\* format_last_attempt(question, scratchpad), whatever the window and the
\* rendered string stored before; two such calls in a row with the same
\* question and scratchpad return the same rendered string.
C6_LastAttemptIdempotent ==
    (Returned /\ last.strategy = "last_attempt") =>
        /\ last.ret.reflections_str
             = format_last_attempt(last.question, last.scratchpad)
        /\ reflections_str = last.ret.reflections_str
        /\ (/\ prev.op = "reflect" /\ prev.raised = "none"
            /\ prev.strategy = "last_attempt"
            /\ prev.question = last.question
            /\ prev.scratchpad = last.scratchpad)
              => last.ret.reflections_str = prev.ret.reflections_str

C6_Witness ==
    /\ Returned /\ last.strategy = "last_attempt"
    /\ prev.op = "reflect" /\ prev.raised = "none"
    /\ prev.strategy = "last_attempt"
    /\ prev.question = last.question
    /\ prev.scratchpad = last.scratchpad
    /\ reflections # <<>>

\* the reflect call recorded in last, made on a freshly constructed reflector
\* with the same max_reflections and no window or rendered string
FreshReflect ==
    LET fresh == IF variant = "CoT" THEN init(llm, {}, {}, max_reflections)
                 ELSE ReAct_init(llm, {}, {}, max_reflections)
        g == IF variant = "CoT"
               THEN cot_reflect(last.strategy, fresh.reflections,
                                last.question, last.scratchpad, {}, last.out)
               ELSE react_reflect(last.strategy, fresh.reflections,
                                  last.question, last.scratchpad, last.out)
    IN IF variant = "CoT"
         THEN reflect(fresh, last.strategy, last.question, last.scratchpad, g)
         ELSE ReAct_reflect(fresh, last.strategy, last.question,
                            last.scratchpad, g)

\* C7: a reflect call made right after clear() ends as the same call on a
\* freshly constructed reflector with the same max_reflections does: same
\* outcome, same returned pair, same stored window and rendered string.
C7_ClearThenReflect ==
    (last.op = "reflect" /\ prev.op = "clear") =>
        /\ last.raised = FreshReflect.raised
        /\ last.ret = FreshReflect.ret
        /\ Self = FreshReflect.self

C7_Witness ==
    /\ last.op = "reflect" /\ prev.op = "clear"
    /\ last.raised = "GenerationFailure"

\* C8: clear() leaves the window empty and the rendered string empty, and a
\* clear() right after a clear() leaves the state the first one produced.
C8_Clear ==
    last.op = "clear" =>
        /\ reflections = <<>>
        /\ reflections_str = <<>>
        /\ prev.op = "clear" => Unchanged

C8_Witness ==
    /\ last.op = "clear" /\ prev.op = "clear"
    /\ reflections = <<>> /\ reflections_str = <<>>

\* the rendered string after a returned "last_attempt_and_reflexion" call,
\* split at the end of the last-attempt block
LastAttemptBlock == format_last_attempt(last.question, last.scratchpad)

AfterLastAttempt ==
    SubSeq(reflections_str, Len(LastAttemptBlock) + 1, Len(reflections_str))

StartsWithLastAttempt ==
    /\ Len(reflections_str) > Len(LastAttemptBlock)
    /\ SubSeq(reflections_str, 1, Len(LastAttemptBlock)) = LastAttemptBlock
    /\ Head(AfterLastAttempt) = NL

\* the critiques a rendered reflection list names, in order
Entries(str) ==
    LET at == SelectSeq([i \in 1..Len(str) |-> i],
                        LAMBDA i : str[i] = Bullet /\ i < Len(str))
    IN [k \in 1..Len(at) |-> str[at[k] + 1]]

\* C9 as stated: after every returned "last_attempt_and_reflexion" call the
\* rendered string is the last-attempt block, a newline, and a reflection
\* block that begins with the alternate header, also when the rendered window
\* is empty (then the block is the header alone).
C9_AlwaysAlternateHeader ==
    (Returned /\ last.strategy = "last_attempt_and_reflexion") =>
        /\ StartsWithLastAttempt
        /\ Len(AfterLastAttempt) >= 2
        /\ AfterLastAttempt[2] = REFLECTION_AFTER_LAST_TRIAL_HEADER
        /\ reflections = <<>> => Len(AfterLastAttempt) = 2

\* C9 amended: after every returned "last_attempt_and_reflexion" call the
\* rendered string is the last-attempt block, a newline, and then, when the
\* stored window is non-empty, a reflection block that begins with the
\* alternate header and lists the window; when the stored window is empty
\* nothing follows the newline.
C9_AlternateHeaderUnlessEmpty ==
    (Returned /\ last.strategy = "last_attempt_and_reflexion") =>
        /\ StartsWithLastAttempt
        /\ reflections # <<>> =>
              /\ Len(AfterLastAttempt) >= 2
              /\ AfterLastAttempt[2] = REFLECTION_AFTER_LAST_TRIAL_HEADER
              /\ Entries(AfterLastAttempt) = reflections
        /\ reflections = <<>> => Len(AfterLastAttempt) = 1

C9_Witness ==
    /\ Returned /\ last.strategy = "last_attempt_and_reflexion"
    /\ reflections = <<>>
    /\ reflections_str = LastAttemptBlock \o <<NL>>

InStr(tok, str) == \E i \in 1..Len(str) : str[i] = tok

\* C10: after every returned reflect call the stored rendered string is the
\* rendering of (strategy, stored window, question, scratchpad) made from
\* scratch, and the returned pair is the stored pair; for "reflexion" the
\* rendering names exactly the stored window's entries, in window order,
\* under the default header and no other.
C10_DerivedString ==
    Returned =>
        /\ reflections_str
             = render(last.strategy, reflections, last.question,
                      last.scratchpad).str
        /\ last.ret = [reflections |-> reflections,
                       reflections_str |-> reflections_str]
        /\ last.strategy = "reflexion" =>
              /\ Entries(reflections_str) = reflections
              /\ ~InStr(REFLECTION_AFTER_LAST_TRIAL_HEADER, reflections_str)
              /\ ~InStr(LAST_TRIAL_HEADER, reflections_str)
              /\ reflections # <<>> =>
                    Head(reflections_str) = REFLECTION_HEADER

C10_Witness ==
    /\ Returned /\ last.strategy = "reflexion"
    /\ Len(last.pre_reflections) >= max_reflections
    /\ Len(reflections) = 2
    /\ last.pre_reflections_str # <<>>
    /\ reflections[1] # reflections[2]

\* C11 (the count read as the length of the whole sequence): once a reflect
\* call has returned or clear has run, whatever the mix of strategies, the
\* stored window of a reflector with max_reflections >= 0 is the last
\* max_reflections entries (all of them when there are fewer) of the
\* chronological sequence: the window the reflector started with, or nothing
\* since the latest clear, followed by the critiques that "reflexion" and
\* "last_attempt_and_reflexion" calls generated since, in generation order.
C11_ChronologicalSuffix ==
    (max_reflections >= 0 /\ (Returned \/ last.op = "clear")) =>
        reflections = LastN(chron, max_reflections)

C13_GenerationCalls ==
    /\ last.op = "reflect" =>
         last.llm_calls
           = (IF last.strategy \in {"reflexion", "last_attempt_and_reflexion"}
                THEN 1 ELSE 0)
    /\ last.op = "clear" => last.llm_calls = 0

C13_Witness ==
    /\ last.op = "reflect"
    /\ last.strategy = "last_attempt_and_reflexion"
    /\ last.raised = "GenerationFailure"
    /\ last.llm_calls = 1

\* the state the latest call started from
PreSelf == [llm |-> last.pre_llm,
            max_reflections |-> last.pre_max_reflections,
            reflections |-> last.pre_reflections,
            reflections_str |-> last.pre_reflections_str]

\* the latest reflect call made on a reflector of the other class in state
\* self, with the same generation outcome
OtherReflect(self, context) ==
    IF variant = "CoT"
      THEN ReAct_reflect(self, last.strategy, last.question, last.scratchpad,
                         react_reflect(last.strategy, self.reflections,
                                       last.question, last.scratchpad,
                                       last.out))
      ELSE reflect(self, last.strategy, last.question, last.scratchpad,
                   cot_reflect(last.strategy, self.reflections,
                               last.question, last.scratchpad, context,
                               last.out))

\* C14: step by step, a reflector of the other class that is in the same
\* state and is given the same call with the same generation outcome ends in
\* the same state and returns (or raises) the same, whatever context the
\* CoT reflector is given; the two constructors build the same state from
\* the same arguments.
C14_VariantEquivalence ==
    /\ last.op = "reflect" =>
         \A context \in Contexts :
            /\ OtherReflect(PreSelf, context).self = Self
            /\ OtherReflect(PreSelf, context).raised = last.raised
            /\ OtherReflect(PreSelf, context).ret = last.ret
    /\ last.op = "clear" =>
         Self = (IF variant = "CoT" THEN ReAct_clear(PreSelf)
                 ELSE clear(PreSelf))
    /\ last.op = "init" =>
         \E w \in SeedWindows, t \in SeedStrings :
            Self = (IF variant = "CoT"
                      THEN ReAct_init(llm, w, t, max_reflections)
                      ELSE init(llm, w, t, max_reflections))

C14_Witness ==
    /\ variant = "ReAct" /\ Returned
    /\ last.strategy = "last_attempt_and_reflexion"
    /\ Len(last.pre_reflections) = max_reflections
    /\ Len(reflections) = 2
    /\ last.pre_reflections_str # <<>>

\* the latest reflect call made from the state the failed call before it
\* started from
AloneReflect ==
    LET start == [PreSelf EXCEPT !.reflections = prev.pre_reflections,
                                 !.reflections_str = prev.pre_reflections_str]
    IN IF variant = "CoT"
         THEN reflect(start, last.strategy, last.question, last.scratchpad,
                      cot_reflect(last.strategy, start.reflections,
                                  last.question, last.scratchpad, {},
                                  last.out))
         ELSE ReAct_reflect(start, last.strategy, last.question,
                            last.scratchpad,
                            react_reflect(last.strategy, start.reflections,
                                          last.question, last.scratchpad,
                                          last.out))

\* C15: in every reachable state, also after a call that raised, clear can be
\* called and reflect can be called with every strategy; and a reflect call
\* that returns right after a reflect call that raised ends as it would have
\* ended without the failed call before it.
C15_Reusable ==
    /\ ENABLED Clear
    /\ \A strategy \in Strategies :
          ENABLED (CoTReflectWith(strategy) \/ ReActReflectWith(strategy))
    /\ (Returned /\ prev.op = "reflect" /\ prev.raised # "none") =>
          /\ AloneReflect.raised = "none"
          /\ AloneReflect.self = Self
          /\ AloneReflect.ret = last.ret

C15_Witness ==
    /\ Returned /\ last.strategy = "reflexion"
    /\ prev.op = "reflect" /\ prev.raised = "GenerationFailure"
    /\ prev.pre_reflections # <<>>
    /\ prev.pre_reflections_str # <<>>

\* C16: a reflect call stores a rendered string only when a branch of the
\* strategy chain computed it, which is so for exactly the three recognized
\* strategies; when the generation routine returns normally for any other
\* strategy the call raises with the window already overwritten by the
\* truncated generated list and the rendered string untouched.
C16_NoStoreWithoutRender ==
    last.op = "reflect" =>
        /\ last.raised = "none" =>
              /\ last.strategy \in Recognized
              /\ reflections_str
                   = render(last.strategy, reflections, last.question,
                            last.scratchpad).str
        /\ last.raised = "UnboundLocalError" => last.strategy \notin Recognized
        /\ (last.strategy \notin Recognized /\ last.llm_calls = 1
              /\ last.out.ok) =>
              /\ last.raised = "UnboundLocalError"
              /\ reflections
                   = PySliceFrom(Append(last.pre_reflections, last.out.text),
                                 0 - max_reflections)
              /\ reflections_str = last.pre_reflections_str

C16_Witness ==
    /\ last.op = "reflect" /\ last.strategy = "bogus"
    /\ last.raised = "UnboundLocalError"
    /\ reflections # last.pre_reflections
    /\ reflections_str = last.pre_reflections_str
    /\ reflections_str # <<>>

\* C17: no reflect call, returned or raised, and no clear call changes
\* max_reflections or the text-generation handle.
C17_ConfigurationFramed ==
    last.op \in {"reflect", "clear"} =>
        /\ max_reflections = last.pre_max_reflections
        /\ llm = last.pre_llm

C17_Witness ==
    /\ last.op = "clear"
    /\ last.pre_reflections # <<>>
    /\ prev.op = "reflect" /\ prev.raised # "none"
    /\ max_reflections = last.pre_max_reflections
    /\ llm = last.pre_llm
====
